---- MODULE Spec2Model ----
(***************************************************************************)
(* Model of icetea_lib.ResourceProvider.ResourceProvider (the allocation   *)
(* orchestrator) together with the allocator plugins it drives.            *)
(*                                                                         *)
(* Every handler of ResourceProvider is one atomic action: the class is    *)
(* used single-threaded, so a call runs to its return or to its raise.     *)
(* The outcome of the last call is kept in `last` (what was returned or    *)
(* raised and which collaborators the call touched).                       *)
(***************************************************************************)
EXTENDS Integers, Sequences, FiniteSets, TLC

\* ---------------------------------------------------------------- bounds
MaxDuts == 2          \* largest device count a requirement asks for
MaxAllocators == 2    \* allocator instances that may ever be constructed
MaxCalls == 4         \* handler calls in one run

Names == {"local", "remote"}        \* allocator names a run may configure
Msgs == {"no devices", "busy"}      \* AllocationError messages
Confs == {"confA", "confB"}         \* raw JSON configurations

None == 0                           \* Python None for self.allocator
NoConf == "<None>"                  \* Python None for self.jsonconf
AllocatorIds == 1..MaxAllocators

VARIABLES
    phase,          \* "alive" | "deleted": the ResourceProvider object
    args,           \* self.args: [allocator |-> configured allocator name]
    allocator,      \* self.allocator: None or the id of the bound allocator
    jsonconf,       \* self.jsonconf: NoConf or the recorded raw configuration
    pluginmanager,  \* self._pluginmanager: [set, registry]
    constructed,    \* number of allocator instances constructed so far
    cleanupCalls,   \* per allocator instance: times its cleanup() ran
    allocCalls,     \* per allocator instance: times its allocate() ran
    held,           \* per allocator instance: devices bound by successful allocate
    dangling,       \* per allocator instance: devices bound by a failed allocate
    ncalls,         \* handler calls made so far
    last,           \* the outcome of the last handler call
    \* ---- EnhancedSerial
    stimeout,       \* self.timeout: the per-call read timeout, in ticks
    buf,            \* self.buf: the decoded text not yet returned
    spc,            \* "idle" | "reading": inside readline's while loop
    mode,           \* "readline" | "readlines": the call in progress
    overall,        \* the timeout argument of the call in progress, in ticks
    tries,          \* readline's local `tries`
    callData,       \* text appended to buf during the readline in progress
    chunks,         \* non-empty blocks appended during the readline in progress
    lines,          \* readlines' local `lines`
    arrived,        \* all text ever appended to buf, in arrival order
    delivered,      \* all lines ever returned by readline, concatenated
    att,            \* the last read attempt
    ret,            \* the last return of readline
    prevRet,        \* the return of readline before that
    batch,          \* the last return of readlines
    quiet,          \* the channel delivers no further data
    sinceQuiet,     \* read attempts of the current call on the quiet channel
    nlAtQuiet,      \* terminators the call had buffered when the data stopped
    \* ---- EnhancedSerial: construction and break signal
    cphase,         \* "new" | "open": before and after __init__
    kwTimeout,      \* kwargs timeout: [given, t], t in units of 0.005 s
    ctimeout,       \* self.timeout as __init__ leaves it, in units of 0.005 s
    verString,      \* pkg_resources' version string of pyserial
    pyserial_version, \* self.pyserial_version, scaled by VerScale
    is_pyserial_v3, \* self.is_pyserial_v3
    detections,     \* calls of get_pyserial_version
    nbreaks,        \* calls of safe_sendBreak
    brk,            \* the last call of safe_sendBreak
    \* ---- tools.recursive_dictionary_get
    dphase,         \* "input" | "done"
    dictionary,     \* the argument `dictionary`
    keys,           \* the argument `keys`
    dres,           \* the outcome of the call
    \* ---- tools.Singleton
    instances,      \* Singleton._instances: class -> identity of its instance
    objects,        \* the objects constructed so far; the index is the identity
    ncons,          \* construction calls so far
    gcall           \* the last construction call

rpvars == <<phase, args, allocator, jsonconf, pluginmanager, constructed,
            cleanupCalls, allocCalls, held, dangling, ncalls, last>>

svars == <<stimeout, buf, spc, mode, overall, tries, callData, chunks, lines,
           arrived, delivered, att, ret, prevRet, batch, quiet, sinceQuiet,
           nlAtQuiet>>

cvars == <<cphase, kwTimeout, ctimeout, verString, pyserial_version,
           is_pyserial_v3, detections, nbreaks, brk>>

dvars == <<dphase, dictionary, keys, dres>>

gvars == <<instances, objects, ncons, gcall>>

vars == <<rpvars, svars, cvars, dvars, gvars>>

\* ------------------------------------------------------- call outcomes
NoCall ==
    [op |-> "init", kind |-> "none", exc |-> "", msg |-> "", value |-> <<>>,
     count |-> 0, lookup |-> FALSE, construct |-> FALSE, allocate |-> FALSE,
     cleaned |-> FALSE, logSuccess |-> FALSE, allocExc |-> "", allocMsg |-> "",
     partial |-> 0, pre |-> None, preConf |-> NoConf, registered |-> FALSE,
     prevOp |-> "none", prevCleaned |-> FALSE, preHeld |-> 0, conf |-> NoConf]

\* A call record for handler `op`, started in the current state.
Call(op) ==
    [NoCall EXCEPT !.op = op, !.pre = allocator, !.preConf = jsonconf,
                   !.prevOp = last.op, !.prevCleaned = last.cleaned,
                   !.preHeld = IF allocator = None THEN 0 ELSE held[allocator]]

Return(c, v) == [c EXCEPT !.kind = "return", !.value = v]
Raise(c, e, m) == [c EXCEPT !.kind = "raise", !.exc = e, !.msg = m]

Handles(n) == [i \in 1..n |-> i]

\* ---------------------------------------------- ResourceProvider.__init__
RPInit ==
    /\ phase = "alive"
    /\ args \in [allocator : Names]
    /\ allocator = None
    /\ jsonconf = NoConf
    /\ pluginmanager = [set |-> FALSE, registry |-> {}]
    /\ constructed = 0
    /\ cleanupCalls = [a \in AllocatorIds |-> 0]
    /\ allocCalls = [a \in AllocatorIds |-> 0]
    /\ held = [a \in AllocatorIds |-> 0]
    /\ dangling = [a \in AllocatorIds |-> 0]
    /\ ncalls = 0
    /\ last = NoCall

\* --------------------------------------- ResourceProvider.set_pluginmanager
SetPluginmanager ==
    /\ phase = "alive"
    /\ ncalls < MaxCalls
    /\ \E reg \in SUBSET Names :
          pluginmanager' = [set |-> TRUE, registry |-> reg]
    /\ ncalls' = ncalls + 1
    /\ last' = Return(Call("set_pluginmanager"), <<>>)
    /\ UNCHANGED <<phase, args, allocator, jsonconf, constructed, cleanupCalls,
                   allocCalls, held, dangling>>
    /\ UNCHANGED <<svars, cvars, dvars, gvars>>

\* ------------------------------------ ResourceProvider.resolve_configuration
\* self.logger is set by __init__, so the `if not self.logger` branch is dead.
\* resource_configuration.resolve_configuration(conf) either returns or raises
\* a configuration error; self.jsonconf is assigned before it runs.
ResolveOutcomes == {"ok", "ConfigError"}

RecordedOnSuccess(old, conf, r) == IF r = "ok" THEN conf ELSE old

\* `self.jsonconf = conf` runs before the delegated resolve, whatever it does.
RecordedConf(old, conf, r) == conf

ResolveConfiguration ==
    /\ phase = "alive"
    /\ ncalls < MaxCalls
    /\ \E conf \in Confs, r \in ResolveOutcomes :
          LET call == [Call("resolve_configuration") EXCEPT !.conf = conf] IN
          /\ jsonconf' = RecordedConf(jsonconf, conf, r)
          /\ last' = IF r = "ok" THEN Return(call, <<>>) ELSE Raise(call, r, "")
    /\ ncalls' = ncalls + 1
    /\ UNCHANGED <<phase, args, allocator, pluginmanager, constructed,
                   cleanupCalls, allocCalls, held, dangling>>
    /\ UNCHANGED <<svars, cvars, dvars, gvars>>

\* ------------------------------------------------ the allocator plugins
\* An allocator class is called as allocator(self.args, None). Its constructor
\* is plugin code: it returns an instance or raises.
CtorOutcomes == {"ok", "AllocationError", "RuntimeError"}

\* allocate(request, args): returns exactly request.count handles, or raises
\* AllocationError with a reason after binding `partial` of the devices.
AllocateOutcomes(count) ==
    {[ok |-> TRUE, partial |-> count, msg |-> ""]}
      \cup {[ok |-> FALSE, partial |-> k, msg |-> m] :
               k \in 0..(IF count > 0 THEN count - 1 ELSE 0), m \in Msgs}

KeptOnFailure(k) == k

\* Devices of a failed allocate that stay bound when it raises: the allocator
\* releases whatever it has already bound before raising.
LeftBoundOnFailure(k) == 0

\* ------------------------------------- ResourceProvider.__get_allocator
Absent == "<absent>"

LookupOrDefault(registry, name) == IF name \in registry THEN name ELSE "local"

\* self._pluginmanager.get_allocator(allocator_name): the class or None.
GetAllocatorClass(registry, name) == IF name \in registry THEN name ELSE Absent

UnableMsg(name) == "Unable to load allocator " \o name

\* The result of __get_allocator: what it raised (exc = "" when it returned
\* an instance) and which collaborators it reached.
GetAllocator(pm, name, ctor) ==
    IF ~pm.set
      THEN \* None.get_allocator
           [exc |-> "AttributeError", msg |-> "", lookup |-> FALSE, construct |-> FALSE]
      ELSE IF GetAllocatorClass(pm.registry, name) = Absent
             THEN [exc |-> "ResourceInitError", msg |-> UnableMsg(name),
                   lookup |-> TRUE, construct |-> FALSE]
             ELSE [exc |-> IF ctor = "ok" THEN "" ELSE ctor, msg |-> "",
                   lookup |-> TRUE, construct |-> TRUE]

NotReached == [exc |-> "", msg |-> "", lookup |-> FALSE, construct |-> FALSE]

\* --------------------------------------- ResourceProvider.allocate_duts
AlwaysNeedsAllocator(a) == TRUE

\* `if not self.allocator`
NeedsAllocator(a) == a = None

GenericMessage(m) == "Allocation failed"

\* `except AllocationError as error: raise ResourceInitError(error.message)`
TranslatedMessage(m) == m

AllocateDuts ==
    /\ phase = "alive"
    /\ ncalls < MaxCalls
    /\ \E count \in 0..MaxDuts, ctor \in CtorOutcomes :
       \E out \in AllocateOutcomes(count) :
         LET need == NeedsAllocator(allocator)
             got == IF need THEN GetAllocator(pluginmanager, args.allocator, ctor)
                            ELSE NotReached
             call == [Call("allocate_duts") EXCEPT
                        !.count = count, !.lookup = got.lookup,
                        !.construct = got.construct,
                        !.registered = args.allocator \in pluginmanager.registry]
         IN
         IF got.exc # ""
           THEN \* __get_allocator raised: it is outside the try block
                /\ last' = Raise(call, got.exc, got.msg)
                /\ UNCHANGED <<allocator, constructed, allocCalls, held, dangling>>
           ELSE LET a == IF need THEN constructed + 1 ELSE allocator
                    tried == [call EXCEPT !.allocate = TRUE]
                IN
                /\ a \in AllocatorIds
                /\ constructed' = IF need THEN constructed + 1 ELSE constructed
                /\ allocator' = a
                /\ allocCalls' = [allocCalls EXCEPT ![a] = @ + 1]
                /\ IF out.ok
                     THEN /\ held' = [held EXCEPT ![a] = @ + count]
                          /\ UNCHANGED dangling
                          /\ last' = Return([tried EXCEPT !.logSuccess = TRUE],
                                            Handles(count))
                     ELSE /\ dangling' = [dangling EXCEPT
                                            ![a] = @ + LeftBoundOnFailure(out.partial)]
                          /\ UNCHANGED held
                          /\ last' = Raise([tried EXCEPT
                                              !.allocExc = "AllocationError",
                                              !.allocMsg = out.msg,
                                              !.partial = out.partial],
                                           "ResourceInitError",
                                           TranslatedMessage(out.msg))
    /\ ncalls' = ncalls + 1
    /\ UNCHANGED <<phase, args, jsonconf, pluginmanager, cleanupCalls>>
    /\ UNCHANGED <<svars, cvars, dvars, gvars>>

\* -------------------------------------------- ResourceProvider.cleanup
AlwaysCleans(a) == TRUE

\* `if self.allocator` in cleanup
HasAllocator(a) == a # None

\* allocator.cleanup(): releases every handle still outstanding.
AllocatorCleanup(a) ==
    /\ cleanupCalls' = [cleanupCalls EXCEPT ![a] = @ + 1]
    /\ held' = [held EXCEPT ![a] = 0]
    /\ dangling' = [dangling EXCEPT ![a] = 0]

Cleanup ==
    /\ phase = "alive"
    /\ ncalls < MaxCalls
    /\ IF HasAllocator(allocator)
         THEN IF allocator = None
                THEN \* None.cleanup
                     /\ last' = Raise(Call("cleanup"), "AttributeError", "")
                     /\ UNCHANGED <<cleanupCalls, held, dangling>>
                ELSE /\ AllocatorCleanup(allocator)
                     /\ last' = Return([Call("cleanup") EXCEPT !.cleaned = TRUE], <<>>)
         ELSE /\ last' = Return(Call("cleanup"), <<>>)
              /\ UNCHANGED <<cleanupCalls, held, dangling>>
    /\ ncalls' = ncalls + 1
    /\ UNCHANGED <<phase, args, allocator, jsonconf, pluginmanager, constructed,
                   allocCalls>>
    /\ UNCHANGED <<svars, cvars, dvars, gvars>>

\* -------------------------------------------- ResourceProvider.__del__
\* The destructor ends the object's life: no handler runs after it.
Del ==
    /\ phase = "alive"
    /\ phase' = "deleted"
    /\ IF allocator # None
         THEN /\ AllocatorCleanup(allocator)
              /\ allocator' = None
              /\ last' = Return([Call("__del__") EXCEPT !.cleaned = TRUE], <<>>)
         ELSE /\ last' = Return(Call("__del__"), <<>>)
              /\ UNCHANGED <<allocator, cleanupCalls, held, dangling>>
    /\ UNCHANGED <<args, jsonconf, pluginmanager, constructed, allocCalls, ncalls>>
    /\ UNCHANGED <<svars, cvars, dvars, gvars>>

\* ---------------------------------------------------------------------
\* EnhancedSerial (mbed_test/enhancedserial.py)
\* ---------------------------------------------------------------------
\* Timeouts are counted in ticks of 0.01 s, the smallest per-call timeout
\* __init__ lets through, so `tries * self.timeout > timeout` is exact.
MaxPerCall == 2       \* largest per-call timeout, in ticks
MaxOverall == 2       \* largest timeout argument of readline, in ticks
MaxChunk == 2         \* most bytes one read(512) delivers
MaxData == 3          \* most decoded characters a run delivers

NL == "\n"
Bytes == {10, 97, 255}              \* "\n", "a" and a byte that is not text

\* bytes.decode() of one byte
Chr(b) == CASE b = 10 -> NL [] b = 97 -> "a"

Decodable(bs) == \A i \in 1..Len(bs) : bs[i] < 128

Decode(bs) == [i \in 1..Len(bs) |-> Chr(bs[i])]

ByteChunks == UNION {[1..n -> Bytes] : n \in 0..MaxChunk}

\* What self.read(512) does: returns bytes (possibly none), returns something
\* that is neither bytes nor str, or raises one of pyserial's exceptions.
ReadOutcomes ==
    [kind : {"bytes"}, data : ByteChunks]
      \cup [kind : {"unknown", "SerialTimeoutException", "SerialException"},
            data : {<<>>}]

\* The reads of a channel that has no data to deliver.
QuietOutcomes == {r \in ReadOutcomes : r.data = <<>>}

\* The exception the try block of readline ends with ("" when it ends
\* normally): a decode error is a UnicodeDecodeError, a ValueError; data of
\* another type raises ValueError("Unknown data").
TryException(r) ==
    CASE r.kind = "bytes" -> IF Decodable(r.data) THEN "" ELSE "ValueError"
      [] r.kind = "unknown" -> "ValueError"
      [] OTHER -> r.kind

CaughtWithoutValueError(exc) == exc \in {"SerialTimeoutException", "SerialException"}

\* The except clauses of readline.
Caught(exc) == exc \in {"SerialTimeoutException", "SerialException", "ValueError"}

\* `block` after the try statement.
Block(r) == IF TryException(r) = "" THEN Decode(r.data) ELSE <<>>

AppendedAtHead(b, block) == block \o b

\* `self.buf += block`
Appended(b, block) == b \o block

Positions(s) == {i \in 1..Len(s) : s[i] = NL}

RFind(s) ==
    IF Positions(s) = {} THEN -1
    ELSE (CHOOSE i \in Positions(s) : \A j \in Positions(s) : j <= i) - 1

\* `self.buf.find('\n')`: the 0-based index of the first terminator, or -1.
Find(s) ==
    IF Positions(s) = {} THEN -1
    ELSE (CHOOSE i \in Positions(s) : \A j \in Positions(s) : i <= j) - 1

LineBeforeTerminator(s, pos) == SubSeq(s, 1, pos)

\* `self.buf[:pos+1]` and, below, `self.buf[pos+1:]`
LineUpTo(s, pos) == SubSeq(s, 1, pos + 1)

RestAfter(s, pos) == SubSeq(s, pos + 2, Len(s))

ExpiredAtLimit(n, percall, limit) == n * percall >= limit

\* `if tries * self.timeout > timeout: break`
Expired(n, percall, limit) == n * percall > limit

KeptOnTimeout(b) == b

\* `line, self.buf = self.buf, ''`: self.buf after a timeout
BufAfterTimeout(b) == <<>>

StopsOnEmptyOnly(line) == line = <<>>

\* `if not line or line[-1:] != '\n': break`
StopsBatch(line) == line = <<>> \/ line[Len(line)] # NL

NLCount(b) == Cardinality({i \in 1..Len(b) : b[i] = NL})

NoAttempt == [kind |-> "none", exc |-> "", block |-> <<>>, n |-> 0]

NoReturn ==
    [kind |-> "none", exc |-> "", line |-> <<>>, found |-> FALSE, attempts |-> 0,
     overall |-> 0, chunks |-> 0, data |-> <<>>, startEmpty |-> TRUE,
     rest |-> <<>>]

\* What is kept of the return before the last one.
Earlier(r) == [kind |-> r.kind, found |-> r.found, chunks |-> r.chunks,
               startEmpty |-> r.startEmpty]

NoBatch == [done |-> FALSE, lines |-> <<>>]

\* The channel between calls, as __init__ leaves it (self.buf = '').
SerialIdle ==
    /\ buf = <<>>
    /\ spc = "idle"
    /\ mode = "readline"
    /\ overall = 0
    /\ tries = 0
    /\ callData = <<>>
    /\ chunks = 0
    /\ lines = <<>>
    /\ arrived = <<>>
    /\ delivered = <<>>
    /\ att = NoAttempt
    /\ ret = NoReturn
    /\ prevRet = Earlier(NoReturn)
    /\ batch = NoBatch
    /\ quiet = FALSE
    /\ sinceQuiet = 0
    /\ nlAtQuiet = 0

\* ------------------------------------------ tools.recursive_dictionary_get
MaxPath == 3          \* longest key path, in characters

\* Strings are sequences of characters; the keys of a dictionary are "" and "a".
PathChars == {"a", "."}
Paths == UNION {[1..n -> PathChars] : n \in 0..MaxPath}
Keys == {<<>>, <<"a">>}

\* A Python value: a scalar (None, 0, '', 1) or a dict, whose kids map the
\* keys it holds to their values. Dicts nest two levels below the top.
Maps(V) == UNION {[D -> V] : D \in SUBSET Keys}
Scalars == {[kind |-> k, kids |-> <<>>] : k \in {"None", "0", "''", "1"}}
Dicts(V) == [kind : {"dict"}, kids : Maps(V)]
Leaves == Scalars \cup Dicts({})
Inner == Scalars \cup Dicts(Leaves)
Values == Scalars \cup Dicts(Inner)

PyNone == [kind |-> "None", kids |-> <<>>]

\* bool(v): None, 0, '' and {} are false.
Truthy(v) == v.kind = "1" \/ (v.kind = "dict" /\ DOMAIN v.kids # {})

\* hasattr(v, "get")
HasGet(v) == v.kind = "dict"

\* d.get(key) of a dict d
DictGet(d, key) == IF key \in DOMAIN d.kids THEN d.kids[key] ELSE PyNone

HasDot(s) == \E i \in 1..Len(s) : s[i] = "."

FirstDot(s) == CHOOSE i \in 1..Len(s) : s[i] = "." /\ \A j \in 1..(i - 1) : s[j] # "."

ReturnedIfTruthy(v) == IF Truthy(v) THEN v ELSE PyNone

\* `return dictionary.get(keys)`: the value found is returned as it is.
Returned(v) == v

Found(v) == [exc |-> "", value |-> v]

AttributeError == [exc |-> "AttributeError", value |-> PyNone]

RECURSIVE recursive_dictionary_get(_, _)
recursive_dictionary_get(ks, d) ==
    IF HasDot(ks) /\ Len(ks) > 1
      THEN LET key0 == SubSeq(ks, 1, FirstDot(ks) - 1)
               key1 == SubSeq(ks, FirstDot(ks) + 1, Len(ks))
           IN IF ~HasGet(d)
                THEN AttributeError
                ELSE LET new_dict == DictGet(d, key0)
                     IN IF ~Truthy(new_dict) \/ ~HasGet(new_dict)
                          THEN Found(PyNone)
                          ELSE recursive_dictionary_get(key1, new_dict)
      ELSE IF Truthy(d) /\ HasGet(d)
             THEN Found(Returned(DictGet(d, ks)))
             ELSE Found(PyNone)

NoLookup ==
    /\ dphase = "input"
    /\ dres = Found(PyNone)

DictionaryGet ==
    /\ dphase = "input"
    /\ dphase' = "done"
    /\ dres' = recursive_dictionary_get(keys, dictionary)
    /\ UNCHANGED <<dictionary, keys>>
    /\ UNCHANGED <<rpvars, svars, cvars, gvars>>

\* --------------------------------------------------------- tools.Singleton
MaxConstructions == 4 \* construction calls in one run

Classes == {"ResourceProvider", "Other"}
CtorArgs == {"x", "y"}

NoConstruction ==
    [cls |-> "", arg |-> "", kind |-> "none", value |-> 0, ranInit |-> FALSE,
     was |-> FALSE, first |-> 0]

NoInstances ==
    /\ instances = [c \in {} |-> 0]
    /\ objects = <<>>
    /\ ncons = 0
    /\ gcall = NoConstruction

NeverRegistered(inst, cls) == FALSE

\* `cls not in cls._instances`, negated
Registered(inst, cls) == cls \in DOMAIN inst

\* Singleton.__call__(cls, a): type.__call__ runs the constructor, which
\* returns (o = "ok") or raises, only when cls is not in _instances.
SingletonCall ==
    /\ ncons < MaxConstructions
    /\ ncons' = ncons + 1
    /\ \E cls \in Classes, a \in CtorArgs, o \in {"ok", "raise"} :
         LET was == cls \in DOMAIN instances
             first == IF was THEN instances[cls] ELSE 0
             c == [NoConstruction EXCEPT !.cls = cls, !.arg = a, !.was = was,
                                         !.first = first]
         IN IF Registered(instances, cls)
              THEN /\ gcall' = [c EXCEPT !.kind = "return", !.value = instances[cls]]
                   /\ UNCHANGED <<instances, objects>>
              ELSE IF o = "ok"
                THEN /\ objects' = Append(objects, [cls |-> cls, arg |-> a])
                     /\ instances' = [k \in DOMAIN instances \cup {cls} |->
                                        IF k = cls THEN Len(objects) + 1
                                                   ELSE instances[k]]
                     /\ gcall' = [c EXCEPT !.kind = "return", !.ranInit = TRUE,
                                           !.value = Len(objects) + 1]
                ELSE /\ gcall' = [c EXCEPT !.kind = "raise", !.ranInit = TRUE]
                     /\ UNCHANGED <<instances, objects>>
    /\ UNCHANGED <<rpvars, svars, cvars, dvars>>

\* ------------------------------------------------ EnhancedSerial.__init__
\* Timeouts of the constructor are counted in units of 0.005 s, so that a
\* positive timeout below the 0.01 s threshold exists.
MinTimeout == 2       \* 0.01 s
DefaultTimeout == 20  \* 0.1 s
MaxReq == 4           \* largest timeout a caller passes, in units of 0.005 s

KwTimeouts ==
    {[given |-> FALSE, t |-> 0]} \cup [given : {TRUE}, t : 0..MaxReq]

Unfloored(kw) == IF kw.given THEN kw.t ELSE DefaultTimeout

\* `timeout = kwargs.get('timeout',0.1); if timeout < 0.01: timeout = 0.1`
InitTimeout(kw) ==
    LET timeout == IF kw.given THEN kw.t ELSE DefaultTimeout
    IN IF timeout < MinTimeout THEN DefaultTimeout ELSE timeout

\* ------------------------------------ EnhancedSerial.get_pyserial_version
MaxVer == 4           \* longest version string

VerChars == {"0", "2", "3", ".", "r"}
Digits == {"0", "2", "3"}
VerStrings == UNION {[1..n -> VerChars] : n \in 0..MaxVer}

\* Versions are kept as whole numbers of 1/VerScale, which holds every
\* decimal fraction a version string of MaxVer characters can spell.
VerScale == 10 ^ MaxVer

DigitValue(c) == CASE c = "0" -> 0 [] c = "2" -> 2 [] c = "3" -> 3

\* The length of the run of digits that starts at position i of s.
RECURSIVE DigitRun(_, _)
DigitRun(s, i) ==
    IF i <= Len(s) /\ s[i] \in Digits THEN 1 + DigitRun(s, i + 1) ELSE 0

\* re.compile("^\d+\.\d+").search(s): the matched text, or <<>> for None.
ReFloatSearch(s) ==
    LET a == DigitRun(s, 1)
        b == DigitRun(s, a + 2)
    IN IF a >= 1 /\ a + 1 <= Len(s) /\ s[a + 1] = "." /\ b >= 1
         THEN SubSeq(s, 1, a + 1 + b)
         ELSE <<>>

RECURSIVE IntOf(_)
IntOf(ds) ==
    IF ds = <<>> THEN 0
    ELSE 10 * IntOf(SubSeq(ds, 1, Len(ds) - 1)) + DigitValue(ds[Len(ds)])

\* float(m.group(0)) of digits "." digits, scaled by VerScale.
FloatOf(text) ==
    LET a == DigitRun(text, 1)
        frac == SubSeq(text, a + 2, Len(text))
    IN IntOf(SubSeq(text, 1, a)) * VerScale
         + IntOf(frac) * (VerScale \div (10 ^ Len(frac)))

AssumedOldVersion == 27 * (VerScale \div 10)

\* `version = 3.0`: what is assumed when the string does not parse.
AssumedVersion == 3 * VerScale

GetPyserialVersion(s) ==
    LET m == ReFloatSearch(s)
    IN IF m # <<>> THEN FloatOf(m) ELSE AssumedVersion

\* `self.pyserial_version >= 3.0`
IsV3(version) == version >= 3 * VerScale

NoBreak ==
    [kind |-> "none", result |-> FALSE, used |-> {}, primary |-> "", fallback |-> ""]

\* The channel before __init__ has run.
ChannelNew ==
    /\ cphase = "new"
    /\ ctimeout = 0
    /\ pyserial_version = 0
    /\ is_pyserial_v3 = FALSE
    /\ detections = 0
    /\ nbreaks = 0
    /\ brk = NoBreak

CInit ==
    /\ RPInit
    /\ args = [allocator |-> "local"]
    /\ SerialIdle
    /\ stimeout = 1
    /\ ChannelNew
    /\ kwTimeout \in KwTimeouts
    /\ verString \in VerStrings
    /\ NoLookup
    /\ dictionary = PyNone
    /\ keys = <<>>
    /\ NoInstances

SerialConstruct ==
    /\ cphase = "new"
    /\ cphase' = "open"
    /\ ctimeout' = InitTimeout(kwTimeout)
    /\ pyserial_version' = GetPyserialVersion(verString)
    /\ is_pyserial_v3' = IsV3(GetPyserialVersion(verString))
    /\ detections' = detections + 1
    /\ UNCHANGED <<kwTimeout, verString, nbreaks, brk>>
    /\ UNCHANGED <<rpvars, svars, dvars, gvars>>

\* ------------------------------------------- EnhancedSerial.safe_sendBreak
MaxBreaks == 2        \* calls of safe_sendBreak in one run

PrimitiveOutcomes == {"ok", "raise"}

\* _safe_sendBreak_v2_7: sendBreak(), and on any exception setBreak(False);
\* result is False only when that raises too.
SafeSendBreakV27(p, f) ==
    [kind |-> "return",
     result |-> (p = "ok" \/ f = "ok"),
     used |-> IF p = "ok" THEN {"sendBreak"} ELSE {"sendBreak", "setBreak"},
     primary |-> p,
     fallback |-> IF p = "ok" THEN "" ELSE f]

\* _safe_sendBreak_v3_0: send_break(), and on any exception the assignment
\* `self.break_condition = False`, which no try block encloses; result is
\* never set to False.
SafeSendBreakV30(p, f) ==
    [kind |-> IF p = "raise" /\ f = "raise" THEN "raise" ELSE "return",
     result |-> ~(p = "raise" /\ f = "raise"),
     used |-> IF p = "ok" THEN {"send_break"}
              ELSE {"send_break", "break_condition"},
     primary |-> p,
     fallback |-> IF p = "ok" THEN "" ELSE f]

\* safe_sendBreak: dispatch on the flag stored by __init__.
SafeSendBreak ==
    /\ cphase = "open"
    /\ nbreaks < MaxBreaks
    /\ nbreaks' = nbreaks + 1
    /\ \E p \in PrimitiveOutcomes, f \in PrimitiveOutcomes :
          brk' = IF is_pyserial_v3 THEN SafeSendBreakV30(p, f)
                                   ELSE SafeSendBreakV27(p, f)
    /\ UNCHANGED <<cphase, kwTimeout, ctimeout, verString, pyserial_version,
                   is_pyserial_v3, detections>>
    /\ UNCHANGED <<rpvars, svars, dvars, gvars>>

CNext == SerialConstruct \/ SafeSendBreak

SpecChannel == CInit /\ [][CNext]_vars

\* EnhancedSerial.__init__: the per-call timeout is positive.
SInit ==
    /\ RPInit
    /\ args = [allocator |-> "local"]
    /\ SerialIdle
    /\ stimeout \in 1..MaxPerCall
    /\ ChannelNew
    /\ kwTimeout = [given |-> FALSE, t |-> 0]
    /\ verString = <<>>
    /\ NoLookup
    /\ dictionary = PyNone
    /\ keys = <<>>
    /\ NoInstances

DInit ==
    /\ RPInit
    /\ args = [allocator |-> "local"]
    /\ SerialIdle
    /\ stimeout = 1
    /\ ChannelNew
    /\ kwTimeout = [given |-> FALSE, t |-> 0]
    /\ verString = <<>>
    /\ NoLookup
    /\ dictionary \in Values
    /\ keys \in Paths
    /\ NoInstances

DNext == DictionaryGet

SpecDict == DInit /\ [][DNext]_vars

GInit ==
    /\ RPInit
    /\ args = [allocator |-> "local"]
    /\ SerialIdle
    /\ stimeout = 1
    /\ ChannelNew
    /\ kwTimeout = [given |-> FALSE, t |-> 0]
    /\ verString = <<>>
    /\ NoLookup
    /\ dictionary = PyNone
    /\ keys = <<>>
    /\ NoInstances

GNext == SingletonCall

SpecSingleton == GInit /\ [][GNext]_vars

\* ------------------------------------------------ EnhancedSerial.readline
\* readline(timeout=t) is entered: `tries = 0`.
StartReadline ==
    /\ spc = "idle"
    /\ \E t \in 0..MaxOverall : overall' = t
    /\ spc' = "reading"
    /\ mode' = "readline"
    /\ tries' = 0
    /\ callData' = <<>>
    /\ chunks' = 0
    /\ att' = NoAttempt
    /\ ret' = NoReturn
    /\ prevRet' = IF ret.kind # "none" THEN Earlier(ret) ELSE prevRet
    /\ batch' = NoBatch
    /\ sinceQuiet' = 0
    /\ nlAtQuiet' = IF quiet THEN NLCount(buf) ELSE 0
    /\ UNCHANGED <<stimeout, buf, lines, arrived, delivered, quiet>>
    /\ UNCHANGED <<rpvars, cvars, dvars, gvars>>

\* readlines(timeout=t) is entered: `lines = []`, then its first readline.
StartReadlines ==
    /\ spc = "idle"
    /\ \E t \in 0..MaxOverall : overall' = t
    /\ spc' = "reading"
    /\ mode' = "readlines"
    /\ tries' = 0
    /\ callData' = <<>>
    /\ chunks' = 0
    /\ lines' = <<>>
    /\ batch' = NoBatch
    /\ att' = NoAttempt
    /\ ret' = NoReturn
    /\ prevRet' = IF ret.kind # "none" THEN Earlier(ret) ELSE prevRet
    /\ sinceQuiet' = 0
    /\ nlAtQuiet' = IF quiet THEN NLCount(buf) ELSE 0
    /\ UNCHANGED <<stimeout, buf, arrived, delivered, quiet>>
    /\ UNCHANGED <<rpvars, cvars, dvars, gvars>>

\* readline returns `line` and leaves `rest` in self.buf. Inside readlines,
\* the loop body that follows the return is part of the same step.
ReadlineReturns(line, rest, found, n, data, nchunks) ==
    /\ buf' = rest
    /\ delivered' = delivered \o line
    /\ prevRet' = IF ret.kind # "none" THEN Earlier(ret) ELSE prevRet
    /\ ret' = [kind |-> "line", exc |-> "", line |-> line, found |-> found,
               attempts |-> n, overall |-> overall, chunks |-> nchunks,
               data |-> data, startEmpty |-> Len(buf) = Len(callData),
               rest |-> rest]
    /\ tries' = 0
    /\ callData' = <<>>
    /\ chunks' = 0
    /\ IF mode = "readline"
         THEN /\ spc' = "idle"
              /\ UNCHANGED <<lines, batch>>
         ELSE LET collected == IF line # <<>> THEN Append(lines, line) ELSE lines IN
              IF StopsBatch(line)
                THEN /\ spc' = "idle"
                     /\ lines' = <<>>
                     /\ batch' = [done |-> TRUE, lines |-> collected]
                ELSE /\ spc' = "reading"
                     /\ lines' = collected
                     /\ UNCHANGED batch

\* One pass of readline's while loop: one read(512) and what follows it.
ReadAttempt ==
    /\ spc = "reading"
    /\ sinceQuiet' = IF quiet THEN sinceQuiet + 1 ELSE sinceQuiet
    /\ \E r \in IF quiet THEN QuietOutcomes ELSE ReadOutcomes :
         LET exc == TryException(r)
             n == tries + 1
         IN
         IF exc # "" /\ ~Caught(exc)
           THEN \* the exception leaves readline (and readlines)
                /\ att' = [kind |-> r.kind, exc |-> exc, block |-> <<>>, n |-> n]
                /\ prevRet' = IF ret.kind # "none" THEN Earlier(ret) ELSE prevRet
                /\ ret' = [NoReturn EXCEPT !.kind = "raise", !.exc = exc,
                                           !.attempts = n, !.overall = overall]
                /\ spc' = "idle"
                /\ tries' = 0
                /\ callData' = <<>>
                /\ chunks' = 0
                /\ lines' = <<>>
                /\ UNCHANGED <<buf, arrived, delivered, batch>>
           ELSE LET block == Block(r)
                    b1 == Appended(buf, block)
                    pos == Find(b1)
                    data == callData \o block
                    nchunks == IF block # <<>> THEN chunks + 1 ELSE chunks
                IN
                /\ Len(arrived) + Len(block) <= MaxData
                /\ arrived' = arrived \o block
                /\ att' = [kind |-> r.kind, exc |-> exc, block |-> block, n |-> n]
                /\ IF pos >= 0
                     THEN ReadlineReturns(LineUpTo(b1, pos), RestAfter(b1, pos),
                                          TRUE, n, data, nchunks)
                     ELSE IF Expired(n, stimeout, overall)
                            THEN ReadlineReturns(b1, BufAfterTimeout(b1),
                                                 FALSE, n, data, nchunks)
                            ELSE /\ tries' = n
                                 /\ buf' = b1
                                 /\ callData' = data
                                 /\ chunks' = nchunks
                                 /\ UNCHANGED <<spc, lines, delivered, ret,
                                                prevRet, batch>>
    /\ UNCHANGED <<stimeout, mode, overall, quiet, nlAtQuiet>>
    /\ UNCHANGED <<rpvars, cvars, dvars, gvars>>

\* From here on the channel has nothing to deliver: every read(512) comes
\* back empty or fails.
GoQuiet ==
    /\ ~quiet
    /\ quiet' = TRUE
    /\ sinceQuiet' = 0
    /\ nlAtQuiet' = IF spc = "reading" THEN NLCount(buf) ELSE 0
    /\ UNCHANGED <<stimeout, buf, spc, mode, overall, tries, callData, chunks,
                   lines, arrived, delivered, att, ret, prevRet, batch>>
    /\ UNCHANGED <<rpvars, cvars, dvars, gvars>>

SNext ==
    \/ StartReadline
    \/ StartReadlines
    \/ ReadAttempt

SpecSerial == SInit /\ [][SNext]_vars

\* Runs of readlines calls on a channel that falls silent at some point.
QNext ==
    \/ StartReadlines
    \/ ReadAttempt
    \/ GoQuiet

\* A started call keeps running: the loops of readline and readlines have no
\* blocking step other than read(512), which returns within its timeout.
SpecQuiet == SInit /\ [][QNext]_vars /\ WF_vars(ReadAttempt)

Next ==
    \/ SetPluginmanager
    \/ ResolveConfiguration
    \/ AllocateDuts
    \/ Cleanup
    \/ Del

\* The orchestrator's runs: the serial channel stays as constructed.
Init ==
    /\ RPInit
    /\ SerialIdle
    /\ stimeout = 1
    /\ ChannelNew
    /\ kwTimeout = [given |-> FALSE, t |-> 0]
    /\ verString = <<>>
    /\ NoLookup
    /\ dictionary = PyNone
    /\ keys = <<>>
    /\ NoInstances

Spec == Init /\ [][Next]_vars

\* --------------------------------------------------------------- claims
IsAllocateDuts == last.op = "allocate_duts"

\* C1 (as stated, for an orchestrator whose plugin manager is set): an
\* allocate_duts call for a requirement of zero devices returns the empty
\* sequence without consulting the registry, running an allocator constructor
\* or calling allocate.
C1_ZeroCountSkipsAllocator ==
    (IsAllocateDuts /\ last.count = 0 /\ pluginmanager.set) =>
        /\ last.kind = "return"
        /\ last.value = <<>>
        /\ ~last.lookup
        /\ ~last.construct
        /\ ~last.allocate

\* C2: when the registry lookup of the configured name returns absent,
\* allocate_duts raises ResourceInitError, runs no allocator constructor and
\* no allocate, and the allocator is unbound after the call as it was before.
C2_UnknownAllocatorFails ==
    (IsAllocateDuts /\ last.lookup /\ ~last.registered) =>
        /\ last.kind = "raise"
        /\ last.exc = "ResourceInitError"
        /\ last.msg = UnableMsg(args.allocator)
        /\ ~last.construct
        /\ ~last.allocate
        /\ last.pre = None
        /\ allocator = None
        /\ constructed = 0

C2_Witness ==
    /\ IsAllocateDuts
    /\ last.lookup
    /\ ~last.registered
    /\ last.exc = "ResourceInitError"
    /\ pluginmanager.registry # {}

\* C3: when the bound allocator's allocate raises AllocationError with
\* message m, allocate_duts raises ResourceInitError carrying exactly m,
\* returns no handles and does not log success.
C3_AllocationErrorTranslated ==
    (IsAllocateDuts /\ last.allocate /\ last.allocExc = "AllocationError") =>
        /\ last.kind = "raise"
        /\ last.exc = "ResourceInitError"
        /\ last.msg = last.allocMsg
        /\ last.value = <<>>
        /\ ~last.logSuccess

C3_Witness ==
    /\ IsAllocateDuts
    /\ last.allocExc = "AllocationError"
    /\ last.allocMsg = "busy"
    /\ last.exc = "ResourceInitError"
    /\ last.msg = "busy"

\* C4 (as stated, for an orchestrator whose plugin manager is set): every
\* error that leaves allocate_duts, whether the lookup, the allocator
\* constructor or allocate failed, is a ResourceInitError.
C4_OnlyResourceInitError ==
    (IsAllocateDuts /\ last.kind = "raise" /\ pluginmanager.set) =>
        last.exc = "ResourceInitError"

\* C5 (as stated): cleanup() on an orchestrator with a bound allocator
\* invokes that allocator's cleanup and leaves no allocator bound.
C5_CleanupUnbinds ==
    (last.op = "cleanup" /\ last.pre # None) =>
        /\ last.cleaned
        /\ allocator = None

\* C6 (as stated): over two cleanup() calls in a row the allocator's cleanup
\* is invoked at most once, and neither call raises.
C6_CleanupIdempotent ==
    (last.op = "cleanup" /\ last.prevOp = "cleanup") =>
        /\ last.kind = "return"
        /\ ~(last.cleaned /\ last.prevCleaned)

\* C7: cleanup() when no allocator was ever bound returns normally, invokes
\* no allocator or registry operation, and leaves the bound-allocator state
\* and the recorded configuration as they were.
C7_CleanupUnboundIsNoop ==
    (last.op = "cleanup" /\ last.pre = None) =>
        /\ last.kind = "return"
        /\ ~last.cleaned
        /\ ~last.lookup
        /\ ~last.construct
        /\ ~last.allocate
        /\ allocator = None
        /\ jsonconf = last.preConf
        /\ \A a \in AllocatorIds : cleanupCalls[a] = 0 /\ allocCalls[a] = 0

C7_Witness ==
    /\ last.op = "cleanup"
    /\ last.pre = None
    /\ last.kind = "return"
    /\ jsonconf # NoConf

\* C8 (as stated): once teardown has ended with the destructor, every
\* allocator that was constructed has had its cleanup invoked exactly once.
C8_CleanupExactlyOnce ==
    phase = "deleted" => \A a \in 1..constructed : cleanupCalls[a] = 1

Live == {a \in 1..constructed : cleanupCalls[a] = 0}

\* C10: no allocator exists unless an allocate_duts call constructed it and
\* went on to allocate with it, at most one allocator is constructed and not
\* yet cleaned up, and a bound allocator is the one constructed last.
C10_LazyAtMostOneLive ==
    /\ Cardinality(Live) <= 1
    /\ \A a \in 1..constructed : allocCalls[a] >= 1
    /\ allocator # None => allocator = constructed
    /\ (IsAllocateDuts /\ last.pre # None) => (~last.construct /\ allocator = last.pre)

C10_Witness ==
    /\ IsAllocateDuts
    /\ last.pre # None
    /\ last.allocate
    /\ allocCalls[allocator] = 2
    /\ Cardinality(Live) = 1

\* C11 (as stated): an allocate_duts call made while the bound allocator
\* still holds devices of an earlier allocate_duts (no cleanup in between)
\* does not invoke allocate again.
C11_NoSecondAllocate ==
    (IsAllocateDuts /\ last.pre # None /\ last.preHeld > 0) => ~last.allocate

\* C12: resolve_configuration stores the raw configuration it was given,
\* whether the delegated resolve returns or raises a configuration error,
\* and reaches neither registry nor allocator: the bound allocator and the
\* devices it holds are as before the call.
C12_ResolveOnlyRecords ==
    last.op = "resolve_configuration" =>
        /\ jsonconf = last.conf
        /\ last.exc \in {"", "ConfigError"}
        /\ allocator = last.pre
        /\ (allocator # None => held[allocator] = last.preHeld)
        /\ ~last.lookup
        /\ ~last.construct
        /\ ~last.allocate
        /\ ~last.cleaned

C12_Witness ==
    /\ last.op = "resolve_configuration"
    /\ last.exc = "ConfigError"
    /\ last.preConf \notin {NoConf, last.conf}
    /\ jsonconf = last.conf
    /\ allocator # None
    /\ held[allocator] > 0

\* C26 (as stated): allocate_duts never invokes allocate on an allocator
\* whose cleanup has already been invoked; after a cleanup() it constructs a
\* fresh allocator first.
C26_NoAllocateAfterCleanup ==
    (IsAllocateDuts /\ last.allocate) => cleanupCalls[allocator] = 0

\* ------------- claims on the construction of the channel and the break signal

\* C21 (as stated): a requested timeout below the minimum, zero included, is
\* coerced up to that minimum; a timeout at or above it is kept; an omitted
\* one defaults to 0.1 s; the timeout is never below the minimum.
C21_CoercedToMinimum ==
    cphase = "open" =>
        /\ ctimeout >= MinTimeout
        /\ ~kwTimeout.given => ctimeout = DefaultTimeout
        /\ (kwTimeout.given /\ kwTimeout.t >= MinTimeout) => ctimeout = kwTimeout.t
        /\ (kwTimeout.given /\ kwTimeout.t < MinTimeout) => ctimeout = MinTimeout

\* C21 (amended): a requested timeout below the minimum, zero included, is
\* replaced by the default 0.1 s; a timeout at or above the minimum is kept;
\* an omitted one defaults to 0.1 s; the timeout is never below the minimum.
C21_ReplacedByDefault ==
    cphase = "open" =>
        /\ ctimeout >= MinTimeout
        /\ ~kwTimeout.given => ctimeout = DefaultTimeout
        /\ (kwTimeout.given /\ kwTimeout.t >= MinTimeout) => ctimeout = kwTimeout.t
        /\ (kwTimeout.given /\ kwTimeout.t < MinTimeout) => ctimeout = DefaultTimeout

C21_Witness ==
    /\ cphase = "open"
    /\ kwTimeout.given
    /\ kwTimeout.t > 0
    /\ kwTimeout.t < MinTimeout
    /\ ctimeout = DefaultTimeout

\* C22 (as stated): safe_sendBreak never propagates an exception; the
\* fallback is attempted only if the primary call raises; the result is true
\* when the primary or the fallback succeeds and false when both raise.
C22_BreakNeverRaises ==
    brk.kind # "none" =>
        /\ brk.kind = "return"
        /\ (brk.fallback # "") <=> (brk.primary = "raise")
        /\ brk.result = (brk.primary = "ok" \/ brk.fallback = "ok")

\* The major.minor prefix a version string starts with, read off the string
\* character by character: digits, a dot, digits.
HasMajorMinor(s) ==
    \E a \in 1..Len(s), b \in 1..Len(s) :
        /\ a + 1 + b <= Len(s)
        /\ \A i \in 1..a : s[i] \in Digits
        /\ s[a + 1] = "."
        /\ \A i \in (a + 2)..(a + 1 + b) : s[i] \in Digits

\* The major number is at least 3: the leading run of digits before the dot
\* ends in "3" after zeros only, or has a nonzero digit before its last.
MajorAtLeast3(s) ==
    \E a \in 1..Len(s) :
        /\ \A i \in 1..a : s[i] \in Digits
        /\ a < Len(s) /\ s[a + 1] = "."
        /\ \/ s[a] = "3" /\ \A i \in 1..(a - 1) : s[i] = "0"
           \/ \E i \in 1..(a - 1) : s[i] # "0"

\* C23: the convention is detected once, at construction; with a version
\* >= 3.0 only send_break and break_condition are ever used, with a lower
\* version only sendBreak and setBreak; a version string that does not parse
\* as major.minor counts as 3.0.
C23_DispatchOnDetectedVersion ==
    cphase = "open" =>
        /\ detections = 1
        /\ is_pyserial_v3 = (~HasMajorMinor(verString) \/ MajorAtLeast3(verString))
        /\ ~HasMajorMinor(verString) => pyserial_version = 3 * VerScale
        /\ brk.used \subseteq (IF ~HasMajorMinor(verString) \/ MajorAtLeast3(verString)
                                THEN {"send_break", "break_condition"}
                                ELSE {"sendBreak", "setBreak"})

C23_Witness ==
    /\ nbreaks = MaxBreaks
    /\ ~HasMajorMinor(verString)
    /\ verString # <<>>
    /\ brk.used = {"send_break", "break_condition"}

\* ----------------------------------------------- claims on the dot-path lookup

\* C24 (as stated): for every key path and every input, a top-level input
\* that is absent or not mapping-like included, recursive_dictionary_get
\* returns instead of raising.
C24_LookupNeverRaises ==
    dphase = "done" => dres.exc = ""

\* The paths of one or two keys at which a dictionary can hold a value.
KeyPaths == UNION {[1..n -> Keys] : n \in 1..2}

\* The dot-separated spelling of a path of keys.
RECURSIVE Join(_)
Join(segs) ==
    IF Len(segs) = 1 THEN segs[1] ELSE segs[1] \o <<".">> \o Join(Tail(segs))

\* A value was placed at segs: every proper prefix leads to a dict that
\* holds the next key.
RECURSIVE PlacedAt(_, _)
PlacedAt(d, segs) ==
    \/ segs = <<>>
    \/ /\ d.kind = "dict"
       /\ Head(segs) \in DOMAIN d.kids
       /\ PlacedAt(d.kids[Head(segs)], Tail(segs))

RECURSIVE ValueAt(_, _)
ValueAt(d, segs) ==
    IF segs = <<>> THEN d ELSE ValueAt(d.kids[Head(segs)], Tail(segs))

C28_OneInstancePerClass ==
    /\ \A c \in Classes :
          Cardinality({i \in 1..Len(objects) : objects[i].cls = c}) <= 1
    /\ \A c \in DOMAIN instances :
          /\ instances[c] \in 1..Len(objects)
          /\ objects[instances[c]].cls = c
    /\ \A c1 \in DOMAIN instances, c2 \in DOMAIN instances :
          c1 # c2 => instances[c1] # instances[c2]
    /\ gcall.was =>
          /\ gcall.kind = "return"
          /\ ~gcall.ranInit
          /\ gcall.value = gcall.first
          /\ instances[gcall.cls] = gcall.first
    /\ gcall.kind = "return" => gcall.value = instances[gcall.cls]

C28_Witness ==
    /\ gcall.was
    /\ gcall.kind = "return"
    /\ objects[gcall.value].arg # gcall.arg
    /\ Cardinality(DOMAIN instances) = 2

\* ------------------------------------------------- claims on the serial channel
\* readline has just returned a line: no read was made since.
AtReturn == ret.kind = "line" /\ tries = 0

Terminated(l) == l # <<>> /\ l[Len(l)] = NL

RECURSIVE Flatten(_)
Flatten(ls) == IF ls = <<>> THEN <<>> ELSE ls[1] \o Flatten(Tail(ls))

IsSuffix(x, y) == /\ Len(x) <= Len(y)
                  /\ SubSeq(y, Len(y) - Len(x) + 1, Len(y)) = x

\* C13: at every moment the lines returned so far, followed by the buffer,
\* are the decoded chunks in arrival order, each character once; and the
\* list readlines returns holds exactly the lines its readline calls returned.
C13_FifoConservation ==
    /\ delivered \o buf = arrived
    /\ batch.done => IsSuffix(Flatten(batch.lines), delivered)
    /\ (mode = "readlines" /\ spc = "reading") => IsSuffix(Flatten(lines), delivered)

C13_Witness ==
    /\ AtReturn
    /\ ret.line # <<>>
    /\ Len(delivered) > Len(ret.line)
    /\ buf # <<>>
    /\ Len(arrived) = MaxData

\* C14: while readline loops after an attempt the buffer holds no
\* terminator; a line returned on finding one is the buffer up to and
\* including the first terminator (one terminator, at its end), found by the
\* last attempt made, and the buffer is left holding exactly the rest.
C14_ReturnsFirstLine ==
    /\ (spc = "reading" /\ tries > 0) => Positions(buf) = {}
    /\ (AtReturn /\ ret.found) =>
          /\ Terminated(ret.line)
          /\ Cardinality(Positions(ret.line)) = 1
          /\ buf = ret.rest
          /\ att.n = ret.attempts
          /\ ret.startEmpty => ret.line \o ret.rest = ret.data

C14_Witness ==
    /\ AtReturn
    /\ ret.found
    /\ Len(ret.line) >= 2
    /\ Positions(ret.rest) # {}
    /\ buf = ret.rest

\* C15: a line returned without a terminator found is everything readline
\* had accumulated, holds no terminator, and leaves the buffer empty for
\* the call that follows.
C15_TimeoutReturnsAll ==
    (AtReturn /\ ~ret.found) =>
        /\ Positions(ret.line) = {}
        /\ ret.attempts * stimeout > ret.overall
        /\ buf = <<>>
        /\ ret.rest = <<>>
        /\ spc = "idle"
        /\ ret.startEmpty => ret.line = ret.data

C15_Witness ==
    /\ AtReturn
    /\ ~ret.found
    /\ ret.line # <<>>
    /\ ret.chunks >= 2
    /\ buf = <<>>

\* C16: a readline entered with an empty buffer that receives, over two or
\* more chunks, one line whose only terminator is its last character returns
\* exactly that line and leaves nothing; a readline entered with an empty
\* buffer that receives no data returns the empty string.
C16_SplitLineThenEmpty ==
    /\ (AtReturn /\ ret.found /\ ret.startEmpty /\ ret.chunks >= 2
          /\ Positions(ret.data) = {Len(ret.data)}) =>
            (ret.line = ret.data /\ ret.rest = <<>>)
    /\ (AtReturn /\ ~ret.found /\ ret.startEmpty /\ ret.data = <<>>) =>
            ret.line = <<>>

\* The empty return that follows "aa\n" delivered over three reads.
C16_Witness ==
    /\ AtReturn
    /\ ~ret.found
    /\ ret.line = <<>>
    /\ ret.startEmpty
    /\ prevRet.kind = "line"
    /\ prevRet.found
    /\ prevRet.startEmpty
    /\ prevRet.chunks = 3
    /\ delivered = <<"a", "a", NL>>
    /\ arrived = delivered

\* C17: readline's loop is bounded: it goes on only while attempts times the
\* per-call timeout has not passed the overall timeout, and a return without
\* a terminator comes after exactly the smallest number n >= 1 of attempts
\* with n times the per-call timeout above the overall timeout.
C17_AttemptsBounded ==
    /\ stimeout > 0
    /\ (spc = "reading" /\ tries > 0) => tries * stimeout <= overall
    /\ (AtReturn /\ ~ret.found) =>
          /\ ret.attempts >= 1
          /\ ret.attempts * stimeout > ret.overall
          /\ (ret.attempts = 1 \/ (ret.attempts - 1) * stimeout <= ret.overall)

C17_Witness ==
    /\ AtReturn
    /\ ~ret.found
    /\ ret.attempts = 3
    /\ stimeout = 1
    /\ ret.overall = 2
    /\ ret.chunks >= 1

\* C18 (as stated): on every return of readline the attempts made times the
\* per-call timeout do not exceed the overall timeout.
C18_WithinOverallTimeout ==
    AtReturn => ret.attempts * stimeout <= ret.overall

\* A read attempt that ended in an exception.
FailedAttempt == att.kind # "none" /\ att.exc # ""

\* C19: readline never ends by raising, and an attempt that failed (write
\* timeout, serial exception, undecodable bytes, data of another type)
\* appended nothing and was counted as an attempt.
C19_FailedReadIsEmptyChunk ==
    /\ ret.kind # "raise"
    /\ FailedAttempt =>
          /\ att.block = <<>>
          /\ (spc = "reading" /\ tries > 0) => tries = att.n
          /\ AtReturn => ret.attempts = att.n

C19_Witness ==
    /\ FailedAttempt
    /\ att.kind = "bytes"
    /\ att.exc = "ValueError"
    /\ AtReturn
    /\ ~ret.found
    /\ ret.line # <<>>
    /\ ret.attempts >= 2

\* C20: every line readlines has collected while it goes on is non-empty and
\* terminated; it returns in the step in which a readline returns an empty
\* or unterminated line, and in the list it returns every element is
\* non-empty and every element but the last is terminated.
C20_ReadlinesStopsAtPartial ==
    /\ (mode = "readlines" /\ spc = "reading") =>
          \A i \in 1..Len(lines) : Terminated(lines[i])
    /\ batch.done =>
          /\ spc = "idle"
          /\ AtReturn
          /\ ~Terminated(ret.line)
          /\ att.n = ret.attempts
          /\ \A i \in 1..Len(batch.lines) :
                /\ batch.lines[i] # <<>>
                /\ i < Len(batch.lines) => Terminated(batch.lines[i])
          /\ ret.line # <<>> => batch.lines[Len(batch.lines)] = ret.line

C20_Witness ==
    /\ batch.done
    /\ Len(batch.lines) = 2
    /\ Terminated(batch.lines[1])
    /\ ~Terminated(batch.lines[2])

\* The read attempts of one full readline timeout budget: the least n with
\* n * self.timeout > timeout.
Budget == (overall \div stimeout) + 1

QuietBatch ==
    /\ buf = <<>>
    /\ delivered = arrived
    /\ IsSuffix(Flatten(batch.lines), arrived)
    /\ \A i \in 1..(Len(batch.lines) - 1) : Terminated(batch.lines[i])

\* C27 (as stated): once the channel delivers no further data, readlines
\* returns after at most one further full readline timeout budget of read
\* attempts, with every complete line received so far in arrival order plus
\* at most one trailing unterminated fragment.
C27_ReturnsWithinOneBudget ==
    (quiet /\ batch.done) => (sinceQuiet <= Budget /\ QuietBatch)

\* C27 (amended): once the channel delivers no further data, readlines
\* eventually returns, after at most one read attempt for each complete line
\* it had buffered when the data stopped plus one full readline timeout
\* budget of read attempts, with every complete line received so far in
\* arrival order plus at most one trailing unterminated fragment.
C27_QuietReadlinesReturns ==
    /\ []((quiet /\ mode = "readlines") => sinceQuiet <= Budget + nlAtQuiet)
    /\ []((quiet /\ batch.done) => QuietBatch)
    /\ (quiet /\ mode = "readlines" /\ spc = "reading") ~> batch.done

C27_Witness ==
    /\ quiet
    /\ batch.done
    /\ nlAtQuiet >= 1
    /\ sinceQuiet = Budget + nlAtQuiet
    /\ Len(batch.lines) >= 2

====
